---- MODULE Spec2Model ----
(***************************************************************************)
(* rpmci: the test-run orchestrator (CliRun.run), its repository scope     *)
(* (RepoLocalHttp), and the virtualization backends (VirtDocker, VirtQemu, *)
(* VirtEC2) as context managers.                                           *)
(*                                                                         *)
(* Spec     is CliRun.run: configuration, construction of the scopes, the  *)
(*          three nested `with` scopes, the phases, the unwind.  The       *)
(*          RepoLocalHttp server thread runs interleaved with it.          *)
(* SpecQemu is one VirtQemu backend held by a `with` scope whose body runs *)
(*          commands on it.                                                *)
(* SpecRun  is Spec and SpecQemu side by side: run() on every backend the  *)
(*          model runs commands on.                                        *)
(* SpecCloudInit is one CloudInit object, built up and then rendered.      *)
(* SpecEC2  is one VirtEC2 backend held by a `with` scope: __enter__ step  *)
(*          by step (every provider call may raise), the scope's body,     *)
(*          __exit__ step by step.                                         *)
(***************************************************************************)
EXTENDS Integers, Sequences, FiniteSets, TLC

VARIABLES
    conf,             \* the configuration read from stdin (Conf.options)
    pc,               \* position of the main thread in CliRun.run
    exc,              \* the exception in flight ("none" when there is none)
    ret,              \* <<v>> once CliRun.run returned v; <<>> before, and when it raised
    log,              \* calls made so far: acquire / release / run records
    ssh_keys,         \* the id_rsa / id_rsa.pub files exist in the cache directory
    httpd,            \* RepoLocalHttp.httpd is set (not None)
    http_thread,      \* state of the RepoLocalHttp server thread
    shutdown_request, \* httpd.shutdown() has been called and not yet served
    mach,             \* per machine: the backend's handle and its resource
    epc,              \* position in the `with VirtEC2` scope
    eexc,             \* exception in flight in the VirtEC2 scope
    aws,              \* provider-visible resources of the VirtEC2 backend
    instance,         \* VirtEC2.instance is set (not None)
    attempts,         \* readiness probes invoked so far
    elog,             \* provider calls and probes made by the VirtEC2 backend
    inflight,         \* the phases whose remote command is running
    exitcode,         \* <<n>> once the process has exited with status n
    qpc,              \* position in the `with VirtQemu` scope
    repodir,          \* the repository directory in the cache: absent / writing / partial / written
    ci,               \* a CloudInit object: repos, users, ssh_keypair, ssh_configs
    userdata,         \* <<d>> once get_userdata_str returned the document d
    apc,              \* position in aws.run_test / aws.run_test_2 / the s3_repository scope
    aexc,             \* exception in flight in the aws flow
    bucket,           \* keys of the objects now in the S3 bucket
    objects,          \* s3_repository's local list `objects`
    walk,             \* files of the directory walk not yet visited
    acmds,            \* remote commands issued by the cloud flow
    aentry,           \* the function of aws.py that was called
    mpc,              \* position in a `with util.manage_process(proc)` scope
    proc,             \* the managed process and what the manager saw of it
    signals,          \* signals sent to the managed process, in order
    mexc              \* exception in flight in the manage_process scope

cliVars == <<conf, pc, exc, ret, log, ssh_keys, httpd, http_thread, shutdown_request, mach>>
ec2Vars == <<epc, eexc, aws, instance, attempts, elog>>
ciVars == <<ci, userdata>>
auxVars == <<qpc, repodir, ciVars>>
awsVars == <<apc, aexc, bucket, objects, walk, acmds, aentry>>
mpVars == <<mpc, proc, signals, mexc>>
unitVars == <<awsVars, mpVars>>
procVars == <<inflight, exitcode, auxVars, unitVars>>
vars == <<conf, pc, exc, ret, log, ssh_keys, httpd, http_thread, shutdown_request, mach,
          epc, eexc, aws, instance, attempts, elog, inflight, exitcode, qpc, repodir, ci, userdata,
          apc, aexc, bucket, objects, walk, acmds, aentry, mpc, proc, signals, mexc>>

\* a process object nobody manages yet
NoProc == [state |-> "none", rc |-> <<>>, timeout |-> 0, polled |-> "none", expired |-> FALSE]

\* the aws flow and the manage_process scope have not been entered
UnitsIdle ==
    /\ apc = "idle"
    /\ aexc = "none"
    /\ bucket = {}
    /\ objects = <<>>
    /\ walk = <<>>
    /\ acmds = <<>>
    /\ aentry = "none"
    /\ mpc = "idle"
    /\ proc = NoProc
    /\ signals = <<>>
    /\ mexc = "none"

(***************************************************************************)
(* Bounds and value sets                                                   *)
(***************************************************************************)
\* exit codes a remote command may return: 0 .. MaxExit
MaxExit == 2
ExitCodes == 0..MaxExit

Machines == {"target", "steering"}
VirtTypes == {"docker", "qemu", "ec2"}
RepoProviders == {"local_http", "existing_url"}

\* The phases of CliRun.run in the order of the source text.
PhaseOrder == <<"target_install", "steering_install", "steering_invoke", "target_invoke", "test_invocation">>

PhaseIndex(p) == CHOOSE i \in 1..Len(PhaseOrder) : PhaseOrder[i] = p

\* The three scopes of CliRun.run, outermost first.
ScopeOrder == <<"repo", "target", "steering">>

ScopeIndex(s) == CHOOSE i \in 1..Len(ScopeOrder) : ScopeOrder[i] = s

(***************************************************************************)
(* Configurations: what Conf.load may be handed.                           *)
(*   repo   "none" or the rpm_repo provider                                *)
(*   target the target key is present                                      *)
(*   cred   the credentials key (credentials.aws) is present               *)
(*   ttype  target.virtualization.type; "other" is a value outside the     *)
(*          three the loader knows                                         *)
(*   stype  steering.virtualization.type, "none" without a steering key    *)
(*   trpm, tinvoke, srpm, sinvoke  the rpm / invoke keys are present       *)
(*   test   "none" without test_invocation, else its machine, "unset"      *)
(*          when test_invocation carries no machine key                    *)
(***************************************************************************)
Configurations ==
    { c \in [ repo : {"none"} \cup RepoProviders,
              target : BOOLEAN, cred : BOOLEAN,
              ttype : VirtTypes \cup {"other"},
              stype : {"none"} \cup VirtTypes,
              trpm : BOOLEAN, tinvoke : BOOLEAN,
              srpm : BOOLEAN, sinvoke : BOOLEAN,
              test : {"none", "target", "steering", "unset"} ] :
        /\ c.stype = "none" => (~c.srpm /\ ~c.sinvoke)
        /\ ~c.target => (c.ttype = "docker" /\ ~c.trpm /\ ~c.tinvoke) }

HasSteering(c) == c.stype # "none"

MachType(c, m) == IF m = "target" THEN c.ttype ELSE c.stype

\* a machine's backend: ref is the handle (_exec_ref, vm_process), live the
\* container or hypervisor process, ready the guest accepting commands
NoMachine == [ref |-> FALSE, live |-> FALSE, ready |-> FALSE]

\* log records; a run record holds the remote command's exit status, what
\* run() returned (res) and the exception run() itself raised
Rec(op, who, p, status, res, raised) ==
    [op |-> op, who |-> who, phase |-> p, status |-> status, res |-> res, raised |-> raised]

AcquireRec(s) == Rec("acquire", s, "none", 0, 0, "none")
ReleaseRec(s) == Rec("release", s, "none", 0, 0, "none")
RunRec(m, p, status, r) == Rec("run", m, p, status, r.res, r.exc)
SleepRec == Rec("sleep", "none", "none", 0, 0, "none")

(***************************************************************************)
(* Conf.load: the loader's verdict on the virtualization objects.  The     *)
(* "ec2" key is skipped (pass), so conf never holds an "ec2" entry and the *)
(* final `conf["type"] not in conf` test raises for type ec2.              *)
(***************************************************************************)
LoadVirtualizationOk(vtype) == vtype \in {"docker", "qemu"}

\* Conf._load_credentials: only the aws key is taken, and then the final
\* test `"virtualization" not in conf` raises whatever the keys were
LoadCredentialsOk == FALSE

\* Conf.load: every top-level key is handed to its loader; without a target
\* key the final test raises
LoadOk(c) ==
    /\ c.target
    /\ LoadVirtualizationOk(c.ttype)
    /\ HasSteering(c) => LoadVirtualizationOk(c.stype)
    /\ c.cred => LoadCredentialsOk

\* configuration.Conf._validate, the schema-based loader: the top-level
\* schema has additionalProperties false and no test_invocation property
ValidateOk(c) ==
    /\ c.target
    /\ c.ttype \in VirtTypes
    /\ c.test = "none"

(***************************************************************************)
(* CliRun._serve_rpm_repository and CliRun._virtualize: the exception the  *)
(* construction of the scopes raises, "none" when all are constructed.     *)
(***************************************************************************)
ServeRpmRepositoryExc(c) ==
    IF c.repo \in {"none", "local_http"} THEN "none" ELSE "ValueError"

\* The qemu branch starts with cloudinit.CloudInit().set_user(...) (line
\* 315); CloudInit defines add_user and no set_user, so the attribute lookup
\* raises AttributeError before anything else of the branch is evaluated.
VirtualizeExc(c, m) ==
    LET vtype == MachType(c, m) IN
    CASE vtype = "docker" -> "none"
      [] vtype = "qemu" -> "AttributeError"
      [] OTHER -> "ValueError"

ConstructExc(c) ==
    IF ServeRpmRepositoryExc(c) # "none" THEN ServeRpmRepositoryExc(c)
    ELSE IF VirtualizeExc(c, "target") # "none" THEN VirtualizeExc(c, "target")
    ELSE IF HasSteering(c) THEN VirtualizeExc(c, "steering")
    ELSE "none"

(***************************************************************************)
(* The `with` statement: where control goes when a scope's __enter__       *)
(* raises, when the body ends, and when a scope's __exit__ returns.        *)
(***************************************************************************)
\* mutant: an __enter__ that raises leaves run() without unwinding the
\* scopes already entered
AfterEnterRaised_NoUnwind(s) == "done"

\* mutant: a failing steering acquire is swallowed and the phases are run
AfterEnterRaised_Swallowed(s) ==
    CASE s = "repo" -> "done"
      [] s = "target" -> "repo_exit"
      [] s = "steering" -> "target_install"

\* mutant: a failing target acquire is swallowed and the steering machine is
\* acquired next
AfterEnterRaised_TargetSwallowed(s) ==
    CASE s = "repo" -> "done"
      [] s = "target" -> "steering_enter"
      [] s = "steering" -> "target_exit"

\* __enter__ of scope s raised: the scope is not entered and its __exit__ is
\* not called; the exception unwinds the scopes around it.
AfterEnterRaised(s) ==
    CASE s = "repo" -> "done"
      [] s = "target" -> "repo_exit"
      [] s = "steering" -> "target_exit"

\* __exit__ of scope s returned or raised: the next enclosing scope unwinds.
AfterExit(s) ==
    CASE s = "steering" -> "target_exit"
      [] s = "target" -> "repo_exit"
      [] s = "repo" -> "done"

\* the body of the innermost scope ended, normally or by an exception
AfterBody == "steering_exit"

\* CliRun.run's return value once the scopes are left
ReturnValue(e) == IF e = "none" THEN <<0>> ELSE <<>>

(***************************************************************************)
(* CloudInit: the builder of a machine's cloud-init user data.             *)
(*   repos        dict name -> entry: here the set of names                *)
(*   users        list: here its length                                    *)
(*   ssh_keypair  None or the pair: here whether it is set                 *)
(*   ssh_configs  dict alias -> entry, in insertion order: here a sequence *)
(*                of [alias, host] without a repeated alias                *)
(***************************************************************************)
\* CloudInit.__init__
NewCloudInit == [repos |-> {}, users |-> 0, keypair |-> FALSE, configs |-> <<>>]

\* the keys of an ssh_configs entry in the order of the dict literal of
\* add_ssh_config
SshConfigKeys == <<"HostName", "Port", "User", "IdentityFile", "StrictHostKeyChecking">>

\* the value add_ssh_config stores under key k for the entry e
SshConfigValue(e, k) ==
    CASE k = "HostName" -> e.host
      [] k = "Port" -> "2222"
      [] k = "User" -> "admin"
      [] k = "IdentityFile" -> "/etc/ssh/id_rsa"
      [] k = "StrictHostKeyChecking" -> "no"

\* self.ssh_configs[host_alias] = {...}: a new alias is appended, a known
\* alias keeps its place and gets the new entry
SetSshConfig(configs, e) ==
    IF \E i \in DOMAIN configs : configs[i].alias = e.alias
    THEN [i \in DOMAIN configs |-> IF configs[i].alias = e.alias THEN e ELSE configs[i]]
    ELSE Append(configs, e)

\* the lines get_userdata_str writes for one entry: "Host <alias>", then one
\* indented line per key of the entry
SshConfigEntryLines(e) ==
    <<  <<"Host", e.alias>>  >> \o
    [i \in 1..Len(SshConfigKeys) |-> <<SshConfigKeys[i], SshConfigValue(e, SshConfigKeys[i])>>]

RECURSIVE SshConfigContent(_)
SshConfigContent(configs) ==
    IF configs = <<>> THEN <<>>
    ELSE SshConfigEntryLines(Head(configs)) \o SshConfigContent(Tail(configs))

\* base64.b64encode(text.encode("utf-8")).decode("utf-8") and its inverse
B64Encode(text) == [b64 |-> text]

B64Decode(enc) == enc.b64

WriteFile(path, text) ==
    [path |-> path, encoding |-> "b64", content |-> B64Encode(text), permissions |-> "0644"]

\* mutant: the private key file is listed before the public key file
KeypairFiles_PrivateFirst(c) ==
    IF c.keypair
    THEN << WriteFile("/etc/ssh/id_rsa", <<"private_key">>),
            WriteFile("/etc/ssh/id_rsa.pub", <<"public_key">>) >>
    ELSE <<>>

\* get_userdata_str, lines 73-87
KeypairFiles(c) ==
    IF c.keypair
    THEN << WriteFile("/etc/ssh/id_rsa.pub", <<"public_key">>),
            WriteFile("/etc/ssh/id_rsa", <<"private_key">>) >>
    ELSE <<>>

\* get_userdata_str, lines 88-101
SshConfigFiles(c) ==
    IF Len(c.configs) > 0
    THEN << WriteFile("/etc/ssh/ssh_config", SshConfigContent(c.configs)) >>
    ELSE <<>>

\* CloudInit.get_userdata_str: the user_data mapping that is dumped as YAML;
\* a key is set only under its `if`
GetUserdataStr(c) ==
    LET write_files == KeypairFiles(c) \o SshConfigFiles(c) IN
    [ keys |-> (IF Cardinality(c.repos) > 0 THEN {"yum_repos"} ELSE {})
               \cup (IF c.users > 0 THEN {"users"} ELSE {})
               \cup (IF Len(write_files) > 0 THEN {"write_files"} ELSE {}),
      yum_repos |-> c.repos,
      users |-> c.users,
      write_files |-> write_files ]

Init ==
    /\ conf \in Configurations
    /\ pc = "load"
    /\ exc = "none"
    /\ ret = <<>>
    /\ log = <<>>
    /\ ssh_keys = FALSE
    /\ httpd = FALSE
    /\ http_thread = "none"
    /\ shutdown_request = FALSE
    /\ mach = [m \in Machines |-> NoMachine]
    /\ epc = "idle"
    /\ eexc = "none"
    /\ aws = [keypair |-> FALSE, sg |-> FALSE, inst |-> "none"]
    /\ instance = FALSE
    /\ attempts = 0
    /\ elog = <<>>
    /\ inflight = {}
    /\ exitcode = <<>>
    /\ qpc = "idle"
    /\ repodir = "absent"
    /\ ci = NewCloudInit
    /\ userdata = <<>>
    /\ UnitsIdle

\* control leaves CliRun.run at position p with exception e in flight
Leave(p, e) ==
    /\ pc' = p
    /\ exc' = e
    /\ ret' = IF p = "done" THEN ReturnValue(e) ELSE ret

(***************************************************************************)
(* CliRun.run, line 336: Conf.load(sys.stdin)                              *)
(***************************************************************************)
Load ==
    /\ pc = "load"
    /\ IF LoadOk(conf)
       THEN Leave("construct", "none")
       ELSE Leave("done", "RuntimeError")
    /\ UNCHANGED <<conf, log, ssh_keys, httpd, http_thread, shutdown_request, mach>>
    /\ UNCHANGED <<ec2Vars, procVars>>

(***************************************************************************)
(* CliRun.run, lines 338-352: SshKeys (ssh-keygen with check=True may      *)
(* fail), then the repository and the backends are constructed.            *)
(***************************************************************************)
Construct ==
    /\ pc = "construct"
    /\ \E keygen_ok \in BOOLEAN :
          IF ~keygen_ok
          THEN /\ Leave("done", "CalledProcessError")
               /\ ssh_keys' = ssh_keys
          ELSE /\ ssh_keys' = TRUE
               /\ IF ConstructExc(conf) = "none"
                  THEN Leave("repo_enter", "none")
                  ELSE Leave("done", ConstructExc(conf))
    /\ UNCHANGED <<conf, log, httpd, http_thread, shutdown_request, mach>>
    /\ UNCHANGED <<ec2Vars, procVars>>

(***************************************************************************)
(* RepoLocalHttp.__enter__ (or nullcontext), statement by statement:       *)
(*   _copy_rpms_to_cache: os.mkdir (raises when the directory exists), the *)
(*     copyfile loop, subprocess.run(createrepo_c), which returns when the *)
(*     metadata generator has ended (its exit status is not looked at);    *)
(*   Thread(target=_serve_directory).start(); time.sleep(2).               *)
(***************************************************************************)
\* mutant: the server thread is started before the directory is filled
RepoEnterOrder_ThreadFirst == <<"repo_enter", "repo_thread_start", "repo_write", "target_enter">>

\* the positions of __enter__ in the order of the source text
RepoEnterOrder == <<"repo_enter", "repo_write", "repo_thread_start", "target_enter">>

NextRepoEnterStep(p) ==
    RepoEnterOrder[(CHOOSE i \in 1..Len(RepoEnterOrder) : RepoEnterOrder[i] = p) + 1]

\* __enter__ returns after its last statement: the scope is acquired
RepoEnterStep(p) ==
    /\ Leave(NextRepoEnterStep(p), "none")
    /\ log' = IF NextRepoEnterStep(p) = "target_enter"
              THEN Append(log, AcquireRec("repo")) ELSE log

RepoEnter ==
    /\ pc = "repo_enter"
    /\ IF conf.repo = "none"
       THEN /\ Leave("target_enter", "none")
            /\ UNCHANGED <<log, repodir>>
       ELSE \E mkdir_ok \in BOOLEAN :
               IF mkdir_ok
               THEN /\ repodir' = "writing"
                    /\ RepoEnterStep("repo_enter")
               ELSE /\ Leave(AfterEnterRaised("repo"), "OSError")
                    /\ UNCHANGED <<log, repodir>>
    /\ UNCHANGED <<conf, ssh_keys, httpd, http_thread, shutdown_request, mach>>
    /\ UNCHANGED <<ec2Vars, inflight, exitcode, qpc, ciVars, unitVars>>

\* the copyfile loop and createrepo_c
RepoWrite ==
    /\ pc = "repo_write"
    /\ \E copy_ok \in BOOLEAN :
          IF copy_ok
          THEN /\ repodir' = "written"
               /\ RepoEnterStep("repo_write")
          ELSE /\ repodir' = "partial"
               /\ Leave(AfterEnterRaised("repo"), "OSError")
               /\ log' = log
    /\ UNCHANGED <<conf, ssh_keys, httpd, http_thread, shutdown_request, mach>>
    /\ UNCHANGED <<ec2Vars, inflight, exitcode, qpc, ciVars, unitVars>>

\* http_thread.start(), time.sleep(2)
RepoThreadStart ==
    /\ pc = "repo_thread_start"
    /\ http_thread' = "started"
    /\ RepoEnterStep("repo_thread_start")
    /\ UNCHANGED <<conf, ssh_keys, httpd, shutdown_request, mach>>
    /\ UNCHANGED <<ec2Vars, procVars>>

(***************************************************************************)
(* RepoLocalHttp._serve_directory, the server thread: HTTPServer(...)      *)
(* binds and sets self.httpd, or raises in the thread and leaves it None.  *)
(***************************************************************************)
ServeDirectory ==
    /\ http_thread = "started"
    /\ \E bind_ok \in BOOLEAN :
          IF bind_ok
          THEN /\ httpd' = TRUE
               /\ http_thread' = "serving"
          ELSE /\ httpd' = httpd
               /\ http_thread' = "failed"
    /\ UNCHANGED <<conf, pc, exc, ret, log, ssh_keys, shutdown_request, mach>>
    /\ UNCHANGED <<ec2Vars, procVars>>

\* serve_forever leaves its loop once shutdown was requested
ServeStop ==
    /\ http_thread = "serving"
    /\ shutdown_request
    /\ http_thread' = "stopped"
    /\ shutdown_request' = FALSE
    /\ UNCHANGED <<conf, pc, exc, ret, log, ssh_keys, httpd, mach>>
    /\ UNCHANGED <<ec2Vars, procVars>>

(***************************************************************************)
(* Backend acquire.  The outcome of __enter__ for a backend type:          *)
(*   VirtDocker: pull fails / container start fails / both succeed         *)
(*   VirtQemu:   Popen raises / the hypervisor process is started          *)
(***************************************************************************)
EnterOutcomes(vtype) ==
    IF vtype = "docker" THEN {"pull_failed", "start_failed", "ok"}
    ELSE {"popen_failed", "ok"}

EnterExc(outcome) ==
    CASE outcome = "ok" -> "none"
      [] outcome = "popen_failed" -> "OSError"
      [] OTHER -> "RuntimeError"

\* the handle and resource after __enter__ ended with the outcome; VirtDocker's
\* except branch runs _container_stop, a no-op while _exec_ref is None.  A
\* started container takes commands at once; VirtQemu.__enter__ sleeps 50
\* seconds after Popen and returns whether or not the guest has booted.
\* mutant: __enter__ returns without having stored the container id
EnterMachine_RefUnset(vtype, outcome, booted) ==
    IF outcome = "ok"
    THEN [ref |-> FALSE, live |-> TRUE, ready |-> (vtype = "docker" \/ booted)]
    ELSE NoMachine

\* mutant: a failed `docker container run` leaves its container running
EnterMachine_StartedOnFailure(vtype, outcome, booted) ==
    IF outcome = "ok"
    THEN [ref |-> TRUE, live |-> TRUE, ready |-> (vtype = "docker" \/ booted)]
    ELSE IF outcome = "start_failed"
         THEN [ref |-> FALSE, live |-> TRUE, ready |-> TRUE]
         ELSE NoMachine

EnterMachine(vtype, outcome, booted) ==
    IF outcome = "ok"
    THEN [ref |-> TRUE, live |-> TRUE, ready |-> (vtype = "docker" \/ booted)]
    ELSE NoMachine

\* mutant: the container is started before the image is pulled
DockerEnterOrder_RunFirst == <<"container_run", "pull">>

\* VirtDocker.__enter__, lines 117-118: _image_acquire (`docker pull`), then
\* _container_start (`docker container run`)
DockerEnterOrder == <<"pull", "container_run">>

\* the docker command that exits non-zero under the outcome
DockerFailing(outcome) ==
    CASE outcome = "pull_failed" -> "pull"
      [] outcome = "start_failed" -> "container_run"
      [] OTHER -> "none"

DockerRec(m, cmd, status) == Rec("docker", m, cmd, status, status, "none")

\* the docker commands __enter__ issues: each helper raises when its command
\* exits non-zero, which ends the try block; the except branch issues no
\* command because _exec_ref is still None
DockerEnterCmds(m, outcome) ==
    LET f == DockerFailing(outcome)
        n == IF f = "none" THEN Len(DockerEnterOrder)
             ELSE CHOOSE i \in 1..Len(DockerEnterOrder) : DockerEnterOrder[i] = f
    IN  [i \in 1..n |-> DockerRec(m, DockerEnterOrder[i], IF DockerEnterOrder[i] = f THEN 1 ELSE 0)]

\* the commands a backend's __enter__ puts on record
EnterCmds(vtype, m, outcome) ==
    IF vtype = "docker" THEN DockerEnterCmds(m, outcome) ELSE <<>>

ExitOutcomes(vtype, mc) ==
    IF vtype = "docker" /\ mc.ref THEN {"stopped", "stop_failed"} ELSE {"ok"}

\* _container_stop returns at once while _exec_ref is None; otherwise it runs
\* `docker container stop` and resets _exec_ref whatever the command's status.
\* VirtQemu.__exit__ kills the hypervisor process.
ExitMachine(vtype, mc, outcome) ==
    IF vtype = "docker"
    THEN IF mc.ref
         THEN [ref |-> FALSE, live |-> (outcome = "stop_failed" /\ mc.live),
               ready |-> (outcome = "stop_failed" /\ mc.ready)]
         ELSE mc
    ELSE [ref |-> mc.ref, live |-> FALSE, ready |-> FALSE]

\* exit status of `docker container stop` under the outcome
DockerStopStatus(outcome) == IF outcome = "stop_failed" THEN 1 ELSE 0

\* the docker command _container_stop issues: none without a reference
ExitCmds(vtype, m, mc, outcome) ==
    IF vtype = "docker" /\ mc.ref
    THEN <<DockerRec(m, "container_stop", DockerStopStatus(outcome))>>
    ELSE <<>>

\* mutant: _container_stop raises when the stop command exits non-zero
ContainerStopExc_Checked(status) == IF status # 0 THEN "RuntimeError" ELSE "none"

\* _container_stop, lines 104-111: proc.wait() is called and its result
\* dropped, so no status makes the helper raise
ContainerStopExc(status) == "none"

\* the exception __exit__ raises
ExitExc(vtype, mc, outcome) ==
    IF vtype = "docker" /\ mc.ref THEN ContainerStopExc(DockerStopStatus(outcome)) ELSE "none"

\* VirtDocker.__enter__, lines 120-123: the except branch runs _container_stop
\* and _image_release (pass) and re-raises; VirtQemu.__enter__ has no handler
ExceptOutcomes(vtype, mc) == IF vtype = "docker" THEN ExitOutcomes(vtype, mc) ELSE {"ok"}

ExceptMachine(vtype, mc, outcome) == IF vtype = "docker" THEN ExitMachine(vtype, mc, outcome) ELSE mc

ExceptCmds(vtype, m, mc, outcome) == IF vtype = "docker" THEN ExitCmds(vtype, m, mc, outcome) ELSE <<>>

BackendEnter(m, here, next) ==
    /\ pc = here
    /\ \E outcome \in EnterOutcomes(MachType(conf, m)), booted \in BOOLEAN :
          LET vt == MachType(conf, m)
              entered == EnterMachine(vt, outcome, booted)
          IN  IF outcome = "ok"
              THEN /\ mach' = [mach EXCEPT ![m] = entered]
                   /\ log' = Append(log \o EnterCmds(vt, m, outcome), AcquireRec(m))
                   /\ Leave(next, "none")
              ELSE \E xo \in ExceptOutcomes(vt, entered) :
                   /\ mach' = [mach EXCEPT ![m] = ExceptMachine(vt, entered, xo)]
                   /\ log' = log \o EnterCmds(vt, m, outcome) \o ExceptCmds(vt, m, entered, xo)
                   /\ Leave(AfterEnterRaised(m), EnterExc(outcome))
    /\ UNCHANGED <<conf, ssh_keys, httpd, http_thread, shutdown_request>>
    /\ UNCHANGED <<ec2Vars, procVars>>

\* the guest of a hypervisor process finishes booting on its own time
GuestBoot ==
    /\ \E m \in Machines :
          /\ MachType(conf, m) = "qemu"
          /\ mach[m].live /\ ~mach[m].ready
          /\ mach' = [mach EXCEPT ![m].ready = TRUE]
    /\ UNCHANGED <<conf, pc, exc, ret, log, ssh_keys, httpd, http_thread, shutdown_request>>
    /\ UNCHANGED <<ec2Vars, procVars>>

\* CliRun.run line 371: with target
TargetEnter == BackendEnter("target", "target_enter", "steering_enter")

\* CliRun.run line 372: with steering or contextlib.nullcontext()
SteeringEnter ==
    IF HasSteering(conf)
    THEN BackendEnter("steering", "steering_enter", "target_install")
    ELSE /\ pc = "steering_enter"
         /\ Leave("target_install", "none")
         /\ UNCHANGED <<conf, log, ssh_keys, httpd, http_thread, shutdown_request, mach>>
         /\ UNCHANGED <<ec2Vars, procVars>>

(***************************************************************************)
(* The phases, CliRun.run lines 373-400.  A phase either is skipped, or    *)
(* runs one command on one machine; a lookup in conf.options may raise     *)
(* KeyError before any command is run.                                     *)
(***************************************************************************)
\* `"rpm" in conf.options["steering"]` and `"invoke" in conf.options["steering"]`
\* index the steering key whether or not the configuration has one.
PhaseLookupExc(c, p) ==
    CASE p \in {"steering_install", "steering_invoke"} /\ ~HasSteering(c) -> "KeyError"
      [] p = "test_invocation" /\ c.test = "unset" -> "KeyError"
      [] OTHER -> "none"

\* the machine the phase runs its command on, "none" when the phase is skipped
PhaseMachine(c, p) ==
    CASE p = "target_install" -> IF c.trpm THEN "target" ELSE "none"
      [] p = "steering_install" -> IF c.srpm THEN "steering" ELSE "none"
      [] p = "steering_invoke" -> IF c.sinvoke THEN "steering" ELSE "none"
      [] p = "target_invoke" -> IF c.tinvoke THEN "target" ELSE "none"
      [] p = "test_invocation" -> IF c.test = "steering" THEN "steering" ELSE "none"

\* mutant: the exit code of an install / invoke command is not looked at
PhaseResultExc_Ignored(p, res) == "none"

\* the exception a phase raises on the command's exit code
PhaseResultExc(p, res) == IF res # 0 THEN "RuntimeError" ELSE "none"

\* a command on the steering machine with a nullcontext steering is a call
\* on None
RunExc(c, m) == IF m = "steering" /\ ~HasSteering(c) THEN "AttributeError" ELSE "none"

\* mutant: the target's invoke block placed before the steering blocks
NextPhase_TargetFirst(p) ==
    CASE p = "target_install" -> "target_invoke"
      [] p = "target_invoke" -> "steering_install"
      [] p = "steering_install" -> "steering_invoke"
      [] p = "steering_invoke" -> "test_invocation"
      [] OTHER -> "sleep"

\* the block after phase p in CliRun.run; time.sleep(600) follows the last
NextPhase(p) ==
    IF PhaseIndex(p) < Len(PhaseOrder) THEN PhaseOrder[PhaseIndex(p) + 1] ELSE "sleep"

\* the position of the main thread while the command of phase p runs
RunPositions == <<"target_install_run", "steering_install_run", "steering_invoke_run",
                  "target_invoke_run", "test_invocation_run">>

RunPos(p) == RunPositions[PhaseIndex(p)]

\* the exit statuses a command may end with: ssh to a guest that has not
\* booted fails
RunStatuses(mc) == IF mc.ready THEN ExitCodes ELSE ExitCodes \ {0}

\* mutant: subprocess.run with check=True raises on a non-zero status
SshCommandRun_Checked(status) ==
    [res |-> status, exc |-> IF status # 0 THEN "CalledProcessError" ELSE "none"]

\* SshCommand.run: subprocess.run(self.cmd), res.returncode; used by
\* VirtQemu.run and VirtEC2.run
SshCommandRun(status) == [res |-> status, exc |-> "none"]

\* VirtDocker.run: proc.wait() of `docker container exec`
VirtDockerRun(status) == [res |-> status, exc |-> "none"]

\* run(command) of a backend: what it returns and what it raises when the
\* remote command ended with the status
BackendRun(vtype, status) ==
    IF vtype = "docker" THEN VirtDockerRun(status) ELSE SshCommandRun(status)

\* mutant: run() returns while the remote command is still running
InflightAfterRun_Detached(fl, p) == fl

\* subprocess.run and proc.wait() return when the command has ended
InflightAfterRun(fl, p) == fl \ {p}

\* a phase block is entered: a lookup raises, or the block is skipped, or
\* its command is issued
Phase(p) ==
    /\ pc = p
    /\ IF PhaseLookupExc(conf, p) # "none"
       THEN /\ Leave(AfterBody, PhaseLookupExc(conf, p))
            /\ inflight' = inflight
       ELSE IF PhaseMachine(conf, p) = "none"
       THEN /\ Leave(NextPhase(p), "none")
            /\ inflight' = inflight
       ELSE IF RunExc(conf, PhaseMachine(conf, p)) # "none"
       THEN /\ Leave(AfterBody, RunExc(conf, PhaseMachine(conf, p)))
            /\ inflight' = inflight
       ELSE /\ Leave(RunPos(p), "none")
            /\ inflight' = inflight \cup {p}
    /\ UNCHANGED <<conf, log, ssh_keys, httpd, http_thread, shutdown_request, mach>>
    /\ UNCHANGED <<ec2Vars, exitcode, auxVars, unitVars>>

\* the command of phase p ends and run() returns; the block looks at res
PhaseReturn(p) ==
    /\ pc = RunPos(p)
    /\ LET m == PhaseMachine(conf, p) IN
       \E status \in RunStatuses(mach[m]) :
          LET r == BackendRun(MachType(conf, m), status) IN
             /\ log' = Append(log, RunRec(m, p, status, r))
             /\ inflight' = InflightAfterRun(inflight, p)
             /\ IF r.exc # "none"
                THEN Leave(AfterBody, r.exc)
                ELSE IF PhaseResultExc(p, r.res) # "none"
                THEN Leave(AfterBody, PhaseResultExc(p, r.res))
                ELSE Leave(NextPhase(p), "none")
    /\ UNCHANGED <<conf, ssh_keys, httpd, http_thread, shutdown_request, mach>>
    /\ UNCHANGED <<ec2Vars, exitcode, auxVars, unitVars>>

TargetInstall == Phase("target_install") \/ PhaseReturn("target_install")
SteeringInstall == Phase("steering_install") \/ PhaseReturn("steering_install")
SteeringInvoke == Phase("steering_invoke") \/ PhaseReturn("steering_invoke")
TargetInvoke == Phase("target_invoke") \/ PhaseReturn("target_invoke")
TestInvocation == Phase("test_invocation") \/ PhaseReturn("test_invocation")

\* CliRun.run lines 399-400: log, time.sleep(600); the body ends
Sleep ==
    /\ pc = "sleep"
    /\ log' = Append(log, SleepRec)
    /\ Leave(AfterBody, "none")
    /\ UNCHANGED <<conf, ssh_keys, httpd, http_thread, shutdown_request, mach>>
    /\ UNCHANGED <<ec2Vars, procVars>>

(***************************************************************************)
(* Backend release.                                                        *)
(*   VirtDocker.__exit__: _container_stop; the exit status of `docker      *)
(*     container stop` is ignored, so the container may be left running;   *)
(*     _exec_ref is reset.                                                 *)
(*   VirtQemu.__exit__: vm_process.kill(); SIGKILL ends the process.       *)
(***************************************************************************)
BackendExit(m, here) ==
    /\ pc = here
    /\ \E outcome \in ExitOutcomes(MachType(conf, m), mach[m]) :
          LET vt == MachType(conf, m)
              x == ExitExc(vt, mach[m], outcome)
          IN  /\ mach' = [mach EXCEPT ![m] = ExitMachine(vt, mach[m], outcome)]
              /\ log' = Append(log \o ExitCmds(vt, m, mach[m], outcome),
                               [ReleaseRec(m) EXCEPT !.raised = x])
              /\ Leave(AfterExit(m), IF x = "none" THEN exc ELSE x)
    /\ UNCHANGED <<conf, ssh_keys, httpd, http_thread, shutdown_request>>
    /\ UNCHANGED <<ec2Vars, procVars>>

SteeringExit ==
    IF HasSteering(conf)
    THEN BackendExit("steering", "steering_exit")
    ELSE /\ pc = "steering_exit"
         /\ Leave(AfterExit("steering"), exc)
         /\ UNCHANGED <<conf, log, ssh_keys, httpd, http_thread, shutdown_request, mach>>
         /\ UNCHANGED <<ec2Vars, procVars>>

TargetExit == BackendExit("target", "target_exit")

(***************************************************************************)
(* RepoLocalHttp.__exit__: self.httpd.shutdown().  With httpd still None   *)
(* the call raises AttributeError; otherwise it blocks until the server    *)
(* loop has ended.                                                         *)
(***************************************************************************)
RepoExit ==
    /\ pc = "repo_exit"
    /\ IF conf.repo = "none"
       THEN /\ Leave(AfterExit("repo"), exc)
            /\ UNCHANGED <<log, shutdown_request>>
       ELSE /\ log' = Append(log, ReleaseRec("repo"))
            /\ IF httpd
               THEN /\ shutdown_request' = TRUE
                    /\ Leave("repo_shutdown", exc)
               ELSE /\ shutdown_request' = shutdown_request
                    /\ Leave(AfterExit("repo"), "AttributeError")
    /\ UNCHANGED <<conf, ssh_keys, httpd, http_thread, mach>>
    /\ UNCHANGED <<ec2Vars, procVars>>

\* httpd.shutdown() returns once serve_forever has ended
RepoShutdownReturn ==
    /\ pc = "repo_shutdown"
    /\ http_thread = "stopped"
    /\ Leave(AfterExit("repo"), exc)
    /\ UNCHANGED <<conf, log, ssh_keys, httpd, http_thread, shutdown_request, mach>>
    /\ UNCHANGED <<ec2Vars, procVars>>

(***************************************************************************)
(* __main__: sys.exit(global_main.run()).  The value run() returned is the *)
(* exit status; an exception that leaves run() is uncaught and the         *)
(* interpreter exits with status 1.                                        *)
(***************************************************************************)
ProcessExitCode(e, r) == IF e = "none" THEN r ELSE <<1>>

\* SshKeys.__del__, run when the object is collected at the latest at
\* interpreter exit: its body is `pass` (the two os.unlink calls are
\* commented out), so the key files stay as they are
SshKeysDel(files) == files

\* the interpreter exits once the main thread is done and every non-daemon
\* thread has ended (the server thread is an ordinary threading.Thread)
MainExit ==
    /\ pc = "done"
    /\ http_thread \notin {"started", "serving"}
    /\ pc' = "exited"
    /\ exitcode' = ProcessExitCode(exc, ret)
    /\ ssh_keys' = SshKeysDel(ssh_keys)
    /\ UNCHANGED <<conf, exc, ret, log, httpd, http_thread, shutdown_request, mach>>
    /\ UNCHANGED <<ec2Vars, inflight, auxVars, unitVars>>

Next ==
    \/ Load
    \/ Construct
    \/ RepoEnter
    \/ RepoWrite
    \/ RepoThreadStart
    \/ ServeDirectory
    \/ ServeStop
    \/ TargetEnter
    \/ SteeringEnter
    \/ TargetInstall
    \/ SteeringInstall
    \/ SteeringInvoke
    \/ TargetInvoke
    \/ TestInvocation
    \/ Sleep
    \/ SteeringExit
    \/ TargetExit
    \/ RepoExit
    \/ RepoShutdownReturn
    \/ MainExit

Spec == Init /\ [][Next]_vars

\* the two threads of a run: the server thread runs _serve_directory, the
\* main thread everything else; both are ordinary threads of one process and
\* each goes on taking its steps while it has one to take
ServerThread == ServeDirectory \/ ServeStop

MainThread == Next /\ (http_thread' = http_thread \/ pc' # pc)

FairSpec == Spec /\ WF_vars(MainThread) /\ WF_vars(ServerThread)

(***************************************************************************)
(* SpecQemu: one VirtQemu backend held by a `with` scope whose body runs   *)
(* commands on it.  CliRun._virtualize never returns a VirtQemu, so the    *)
(* backend is exercised on its own, as the target machine.                 *)
(***************************************************************************)
\* commands the body of the scope runs at most
MaxCommands == 3

InitQemu ==
    /\ conf = [repo |-> "none", target |-> TRUE, cred |-> FALSE, ttype |-> "qemu", stype |-> "none",
               trpm |-> FALSE, tinvoke |-> TRUE, srpm |-> FALSE, sinvoke |-> FALSE,
               test |-> "none"]
    /\ pc = "idle"
    /\ exc = "none"
    /\ ret = <<>>
    /\ log = <<>>
    /\ ssh_keys = TRUE
    /\ httpd = FALSE
    /\ http_thread = "none"
    /\ shutdown_request = FALSE
    /\ mach = [m \in Machines |-> NoMachine]
    /\ epc = "idle"
    /\ eexc = "none"
    /\ aws = [keypair |-> FALSE, sg |-> FALSE, inst |-> "none"]
    /\ instance = FALSE
    /\ attempts = 0
    /\ elog = <<>>
    /\ inflight = {}
    /\ exitcode = <<>>
    /\ qpc = "enter"
    /\ repodir = "absent"
    /\ ci = NewCloudInit
    /\ userdata = <<>>
    /\ UnitsIdle

\* VirtQemu.__enter__: Popen, time.sleep(50)
QemuEnter ==
    /\ qpc = "enter"
    /\ \E outcome \in EnterOutcomes("qemu"), booted \in BOOLEAN :
          /\ mach' = [mach EXCEPT !["target"] = EnterMachine("qemu", outcome, booted)]
          /\ exc' = EnterExc(outcome)
          /\ IF outcome = "ok"
             THEN /\ log' = Append(log, AcquireRec("target"))
                  /\ qpc' = "body"
             ELSE /\ log' = log
                  /\ qpc' = "done"
    /\ UNCHANGED <<conf, pc, ret, ssh_keys, httpd, http_thread, shutdown_request>>
    /\ UNCHANGED <<ec2Vars, inflight, exitcode, repodir, ciVars, unitVars>>

\* the body calls VirtQemu.run: the ssh command is started
QemuRun ==
    /\ qpc = "body"
    /\ Len(log) <= MaxCommands
    /\ inflight' = inflight \cup {"target_invoke"}
    /\ qpc' = "run"
    /\ UNCHANGED <<cliVars, ec2Vars, exitcode, repodir, ciVars, unitVars>>

\* the ssh command ends and VirtQemu.run returns
QemuRunReturn ==
    /\ qpc = "run"
    /\ \E status \in RunStatuses(mach["target"]) :
          LET r == BackendRun("qemu", status) IN
             /\ log' = Append(log, RunRec("target", "target_invoke", status, r))
             /\ inflight' = InflightAfterRun(inflight, "target_invoke")
             /\ exc' = r.exc
             /\ qpc' = IF r.exc # "none" THEN "exit" ELSE "body"
    /\ UNCHANGED <<conf, pc, ret, ssh_keys, httpd, http_thread, shutdown_request, mach>>
    /\ UNCHANGED <<ec2Vars, exitcode, repodir, ciVars, unitVars>>

\* the body of the scope ends
QemuBodyEnd ==
    /\ qpc = "body"
    /\ qpc' = "exit"
    /\ UNCHANGED <<cliVars, ec2Vars, inflight, exitcode, repodir, ciVars, unitVars>>

\* VirtQemu.__exit__: vm_process.kill()
QemuExit ==
    /\ qpc = "exit"
    /\ \E outcome \in ExitOutcomes("qemu", mach["target"]) :
          mach' = [mach EXCEPT !["target"] = ExitMachine("qemu", mach["target"], outcome)]
    /\ log' = Append(log, ReleaseRec("target"))
    /\ qpc' = "done"
    /\ UNCHANGED <<conf, pc, exc, ret, ssh_keys, httpd, http_thread, shutdown_request>>
    /\ UNCHANGED <<ec2Vars, inflight, exitcode, repodir, ciVars, unitVars>>

NextQemu ==
    \/ QemuEnter
    \/ GuestBoot
    \/ QemuRun
    \/ QemuRunReturn
    \/ QemuBodyEnd
    \/ QemuExit

SpecQemu == InitQemu /\ [][NextQemu]_vars

\* SpecRun: CliRun.run and the VirtQemu scope side by side, for what holds
\* of run() on every backend
InitRun == Init \/ InitQemu

NextRun == Next \/ NextQemu

SpecRun == InitRun /\ [][NextRun]_vars


(***************************************************************************)
(* VirtEC2 held by a `with` scope.                                         *)
(*                                                                         *)
(* aws is what the provider holds: the imported keypair, the security      *)
(* group, and the instance ("none", "pending", "running",                  *)
(* "shutting-down", "terminated").  Every provider call may raise.         *)
(* elog records each provider call and probe with rc = 0 when it           *)
(* succeeded and 1 when it raised or exited non-zero.                      *)
(***************************************************************************)
\* range(20) of the readiness loop in VirtEC2._create_ec2_instance
MaxAttempts == 20

Call(c, rc) == [call |-> c, rc |-> rc]

Rc(ok) == IF ok THEN 0 ELSE 1

\* the cloud artifacts of a VirtEC2 backend
Artifacts == {"keypair", "sg", "instance"}

\* _log_aws_create_artifact / _log_aws_delete_artifact: one logging.info line
LogCreate(a) == [call |-> "log_create", rc |-> 0, artifact |-> a]
LogDelete(a) == [call |-> "log_delete", rc |-> 0, artifact |-> a]

\* the steps of VirtEC2.__enter__ and VirtEC2.__exit__ in source order
EnterOrder == <<"enter_keypair", "enter_sg", "enter_instance", "probe">>
ExitOrder == <<"exit_terminate", "exit_wait", "exit_sg", "exit_keypair">>

StepAfter(order, s) ==
    LET i == CHOOSE k \in 1..Len(order) : order[k] = s
    IN IF i < Len(order) THEN order[i + 1] ELSE "end"

\* mutant: __enter__ returns once the instance is running, without probing
NextEnterStep_NoProbe(s) ==
    CASE s = "enter_keypair" -> "enter_sg"
      [] s = "enter_sg" -> "enter_instance"
      [] OTHER -> "body"

\* mutant: the instance is launched before its security group is created
NextEnterStep_InstanceFirst(s) ==
    CASE s = "enter_keypair" -> "enter_instance"
      [] s = "enter_instance" -> "enter_sg"
      [] s = "enter_sg" -> "probe"
      [] OTHER -> "body"

\* __enter__: the step that follows a step that returned; the body follows
\* the readiness loop
NextEnterStep(s) ==
    IF StepAfter(EnterOrder, s) = "end" THEN "body" ELSE StepAfter(EnterOrder, s)

\* mutant: __exit__ does not wait for the termination to be confirmed
NextExitStep_NoWait(s) ==
    CASE s = "exit_terminate" -> "exit_sg"
      [] s = "exit_sg" -> "exit_keypair"
      [] OTHER -> "done"

\* __exit__: the step that follows a step that returned
NextExitStep(s) ==
    IF StepAfter(ExitOrder, s) = "end" THEN "done" ELSE StepAfter(ExitOrder, s)

\* a step of __enter__ raised: the `with` statement does not call __exit__
AfterEC2EnterRaised == "done"

\* a step of __exit__ raised: nothing catches it inside __exit__
AfterEC2ExitRaised(s) == "done"

\* the provider refuses to delete a security group an instance still uses
SecurityGroupInUse(a) == a.inst \in {"pending", "running", "shutting-down"}

\* mutant: the loop runs one iteration too many
ProbeOutcome_OffByOne(n, rc) ==
    IF rc = 0 THEN "ready"
    ELSE IF n >= MaxAttempts + 1 THEN "boot_failed"
    ELSE "retry"

\* the readiness loop after the n-th probe returned rc: break, next
\* iteration, or the for-else raise
ProbeOutcome(n, rc) ==
    IF rc = 0 THEN "ready"
    ELSE IF n >= MaxAttempts THEN "boot_failed"
    ELSE "retry"

InitEC2 ==
    /\ conf = [repo |-> "none", target |-> TRUE, cred |-> FALSE, ttype |-> "ec2", stype |-> "none",
               trpm |-> FALSE, tinvoke |-> FALSE, srpm |-> FALSE, sinvoke |-> FALSE,
               test |-> "none"]
    /\ pc = "idle"
    /\ exc = "none"
    /\ ret = <<>>
    /\ log = <<>>
    /\ ssh_keys = TRUE
    /\ httpd = FALSE
    /\ http_thread = "none"
    /\ shutdown_request = FALSE
    /\ mach = [m \in Machines |-> NoMachine]
    /\ epc = "enter_keypair"
    /\ eexc = "none"
    /\ aws = [keypair |-> FALSE, sg |-> FALSE, inst |-> "none"]
    /\ instance = FALSE
    /\ attempts = 0
    /\ elog = <<>>
    /\ inflight = {}
    /\ exitcode = <<>>
    /\ qpc = "idle"
    /\ repodir = "absent"
    /\ ci = NewCloudInit
    /\ userdata = <<>>
    /\ UnitsIdle

EC2Raise(p, e) ==
    /\ epc' = p
    /\ eexc' = e

\* VirtEC2._create_ec2_keypair: ec2.import_key_pair
CreateEC2Keypair ==
    /\ epc = "enter_keypair"
    /\ \E ok \in BOOLEAN :
          /\ elog' = elog \o <<LogCreate("keypair"), Call("import_key_pair", Rc(ok))>>
          /\ aws' = [aws EXCEPT !.keypair = ok]
          /\ IF ok
             THEN EC2Raise(NextEnterStep("enter_keypair"), "none")
             ELSE EC2Raise(AfterEC2EnterRaised, "ClientError")
    /\ UNCHANGED <<instance, attempts>>
    /\ UNCHANGED <<cliVars, procVars>>

\* VirtEC2._create_ec2_security_group: create_security_group, then
\* authorize_ingress on the group just created
CreateEC2SecurityGroup ==
    /\ epc = "enter_sg"
    /\ \E outcome \in {"ok", "create_failed", "ingress_failed"} :
          /\ elog' = IF outcome = "create_failed"
                     THEN elog \o <<LogCreate("sg"), Call("create_security_group", 1)>>
                     ELSE elog \o <<LogCreate("sg"), Call("create_security_group", 0),
                                    Call("authorize_ingress", Rc(outcome = "ok"))>>
          /\ aws' = [aws EXCEPT !.sg = (outcome # "create_failed")]
          /\ IF outcome = "ok"
             THEN EC2Raise(NextEnterStep("enter_sg"), "none")
             ELSE EC2Raise(AfterEC2EnterRaised, "ClientError")
    /\ UNCHANGED <<instance, attempts>>
    /\ UNCHANGED <<cliVars, procVars>>

\* VirtEC2._create_ec2_instance, lines 78-88: create_instances,
\* wait_until_running, self.instance
CreateEC2Instance ==
    /\ epc = "enter_instance"
    /\ \E outcome \in {"ok", "create_failed", "wait_failed"} :
          /\ elog' = IF outcome = "create_failed"
                     THEN elog \o <<LogCreate("instance"), Call("create_instances", 1)>>
                     ELSE elog \o <<LogCreate("instance"), Call("create_instances", 0),
                                    Call("wait_until_running", Rc(outcome = "ok"))>>
          /\ aws' = [aws EXCEPT !.inst = CASE outcome = "ok" -> "running"
                                           [] outcome = "wait_failed" -> "pending"
                                           [] OTHER -> "none"]
          /\ instance' = (outcome = "ok")
          /\ IF outcome = "ok"
             THEN EC2Raise(NextEnterStep("enter_instance"), "none")
             ELSE EC2Raise(AfterEC2EnterRaised, "ClientError")
    /\ UNCHANGED attempts
    /\ UNCHANGED <<cliVars, procVars>>

\* VirtEC2._create_ec2_instance, lines 89-105: one iteration of the
\* readiness loop
Probe ==
    /\ epc = "probe"
    /\ \E rc \in ExitCodes :
          /\ attempts' = attempts + 1
          /\ elog' = Append(elog, Call("probe", Rc(rc = 0)))
          /\ CASE ProbeOutcome(attempts + 1, rc) = "ready" ->
                    EC2Raise(NextEnterStep("probe"), "none")
               [] ProbeOutcome(attempts + 1, rc) = "boot_failed" ->
                    EC2Raise(AfterEC2EnterRaised, "RuntimeError")
               [] OTHER ->
                    EC2Raise("probe", "none")
    /\ UNCHANGED <<aws, instance>>
    /\ UNCHANGED <<cliVars, procVars>>

\* the body of the scope: a command run on the backend (VirtEC2.run), after
\* which the body ends normally or by an exception
Body ==
    /\ epc = "body"
    /\ \E rc \in ExitCodes, raises \in BOOLEAN :
          /\ elog' = Append(elog, Call("run", rc))
          /\ EC2Raise(ExitOrder[1], IF raises THEN "BodyError" ELSE "none")
    /\ UNCHANGED <<aws, instance, attempts>>
    /\ UNCHANGED <<cliVars, procVars>>

\* VirtEC2._delete_ec2_instance, line 109: self.instance.terminate()
TerminateEC2Instance ==
    /\ epc = "exit_terminate"
    /\ \E ok \in BOOLEAN :
          /\ elog' = elog \o <<LogDelete("instance"), Call("terminate", Rc(ok))>>
          /\ aws' = [aws EXCEPT !.inst = IF ok THEN "shutting-down" ELSE @]
          /\ IF ok
             THEN EC2Raise(NextExitStep("exit_terminate"), eexc)
             ELSE EC2Raise(AfterEC2ExitRaised("exit_terminate"), "ClientError")
    /\ UNCHANGED <<instance, attempts>>
    /\ UNCHANGED <<cliVars, procVars>>

\* VirtEC2._delete_ec2_instance, line 110: self.instance.wait_until_terminated()
WaitEC2Terminated ==
    /\ epc = "exit_wait"
    /\ \E ok \in BOOLEAN :
          /\ elog' = Append(elog, Call("wait_until_terminated", Rc(ok)))
          /\ aws' = [aws EXCEPT !.inst = IF ok /\ @ = "shutting-down" THEN "terminated" ELSE @]
          /\ IF ok
             THEN EC2Raise(NextExitStep("exit_wait"), eexc)
             ELSE EC2Raise(AfterEC2ExitRaised("exit_wait"), "WaiterError")
    /\ UNCHANGED <<instance, attempts>>
    /\ UNCHANGED <<cliVars, procVars>>

\* VirtEC2._delete_ec2_security_group: self.security_group.delete()
DeleteEC2SecurityGroup ==
    /\ epc = "exit_sg"
    /\ \E ok \in BOOLEAN :
          /\ ok => ~SecurityGroupInUse(aws)
          /\ elog' = elog \o <<LogDelete("sg"), Call("delete_security_group", Rc(ok))>>
          /\ aws' = [aws EXCEPT !.sg = IF ok THEN FALSE ELSE @]
          /\ IF ok
             THEN EC2Raise(NextExitStep("exit_sg"), eexc)
             ELSE EC2Raise(AfterEC2ExitRaised("exit_sg"), "ClientError")
    /\ UNCHANGED <<instance, attempts>>
    /\ UNCHANGED <<cliVars, procVars>>

\* VirtEC2._delete_ec2_keypair: key_pair.delete()
DeleteEC2Keypair ==
    /\ epc = "exit_keypair"
    /\ \E ok \in BOOLEAN :
          /\ elog' = elog \o <<LogDelete("keypair"), Call("delete_key_pair", Rc(ok))>>
          /\ aws' = [aws EXCEPT !.keypair = IF ok THEN FALSE ELSE @]
          /\ IF ok
             THEN EC2Raise(NextExitStep("exit_keypair"), eexc)
             ELSE EC2Raise(AfterEC2ExitRaised("exit_keypair"), "ClientError")
    /\ UNCHANGED <<instance, attempts>>
    /\ UNCHANGED <<cliVars, procVars>>

NextEC2 ==
    \/ CreateEC2Keypair
    \/ CreateEC2SecurityGroup
    \/ CreateEC2Instance
    \/ Probe
    \/ Body
    \/ TerminateEC2Instance
    \/ WaitEC2Terminated
    \/ DeleteEC2SecurityGroup
    \/ DeleteEC2Keypair

SpecEC2 == InitEC2 /\ [][NextEC2]_vars

\* every call of the scope returns or raises: the thread that runs the
\* scope keeps taking steps while one is possible
FairSpecEC2 == SpecEC2 /\ WF_vars(NextEC2)


\* SpecBackends: the three backends side by side (CliRun.run with its docker
\* machines, the VirtQemu scope, the VirtEC2 scope), for what holds of run()
\* on every backend
InitBackends == Init \/ InitQemu \/ InitEC2

NextBackends == Next \/ NextQemu \/ NextEC2

SpecBackends == InitBackends /\ [][NextBackends]_vars

\* every part of the model outside aws.py and util.py is at rest
RestIdle ==
    /\ conf = [repo |-> "none", target |-> TRUE, cred |-> FALSE, ttype |-> "ec2", stype |-> "none",
               trpm |-> FALSE, tinvoke |-> FALSE, srpm |-> FALSE, sinvoke |-> FALSE,
               test |-> "none"]
    /\ pc = "idle"
    /\ exc = "none"
    /\ ret = <<>>
    /\ log = <<>>
    /\ ssh_keys = TRUE
    /\ httpd = FALSE
    /\ http_thread = "none"
    /\ shutdown_request = FALSE
    /\ mach = [m \in Machines |-> NoMachine]
    /\ epc = "idle"
    /\ eexc = "none"
    /\ aws = [keypair |-> FALSE, sg |-> FALSE, inst |-> "none"]
    /\ instance = FALSE
    /\ attempts = 0
    /\ elog = <<>>
    /\ inflight = {}
    /\ exitcode = <<>>
    /\ qpc = "idle"
    /\ repodir = "absent"
    /\ ci = NewCloudInit
    /\ userdata = <<>>

(***************************************************************************)
(* SpecManage: one `with util.manage_process(proc, timeout=t)` scope.      *)
(*   proc.state    what the process is doing: running / finished           *)
(*   proc.rc       <<n>> once it has ended with status n                   *)
(*   proc.polled   what proc.poll() found in the finally clause            *)
(*   proc.expired  proc.wait(timeout) raised TimeoutExpired                *)
(* The process ends on its own time, also while the manager is at work.    *)
(***************************************************************************)
MaxTimeout == 2

Timeouts == 0..MaxTimeout

InitManage ==
    /\ RestIdle
    /\ apc = "idle"
    /\ aexc = "none"
    /\ bucket = {}
    /\ objects = <<>>
    /\ walk = <<>>
    /\ acmds = <<>>
    /\ aentry = "none"
    /\ mpc = "body"
    /\ \E t \in Timeouts :
          proc = [state |-> "running", rc |-> <<>>, timeout |-> t, polled |-> "none", expired |-> FALSE]
    /\ signals = <<>>
    /\ mexc = "none"

ManageRest == UNCHANGED <<cliVars, ec2Vars, inflight, exitcode, auxVars, awsVars>>

\* the managed process ends by itself
ProcFinish ==
    /\ mpc \notin {"idle", "done"}
    /\ proc.state = "running"
    /\ \E rc \in ExitCodes :
          proc' = [proc EXCEPT !.state = "finished", !.rc = <<rc>>]
    /\ UNCHANGED <<mpc, signals, mexc>>
    /\ ManageRest

\* the body of the with statement ends, normally or by an exception
ManageBodyEnd ==
    /\ mpc = "body"
    /\ \E raised \in BOOLEAN :
          mexc' = IF raised THEN "RuntimeError" ELSE "none"
    /\ mpc' = "poll"
    /\ UNCHANGED <<proc, signals>>
    /\ ManageRest

\* mutant: the finally clause does not look at proc.poll()
AfterPoll_NoPoll(state, timeout) ==
    IF timeout = 0 THEN "kill" ELSE "terminate"

\* finally, lines 29-32: nothing to do for a process that has ended; SIGKILL
\* with timeout 0; terminate() otherwise
AfterPoll(state, timeout) ==
    IF state = "finished" THEN "done"
    ELSE IF timeout = 0 THEN "kill" ELSE "terminate"

\* line 29: proc.poll()
ManagePoll ==
    /\ mpc = "poll"
    /\ proc' = [proc EXCEPT !.polled = proc.state]
    /\ mpc' = AfterPoll(proc.state, proc.timeout)
    /\ UNCHANGED <<signals, mexc>>
    /\ ManageRest

\* what a signal that cannot be caught or, for SIGTERM, may be ignored does to
\* the process
Killed(p) == IF p.state = "running" THEN [p EXCEPT !.state = "finished", !.rc = <<0 - 9>>] ELSE p

\* lines 31 and 37: proc.send_signal(signal.SIGKILL)
ManageKill ==
    /\ mpc = "kill"
    /\ signals' = Append(signals, "SIGKILL")
    /\ proc' = Killed(proc)
    /\ mpc' = "done"
    /\ UNCHANGED mexc
    /\ ManageRest

\* line 34: proc.terminate()
ManageTerminate ==
    /\ mpc = "terminate"
    /\ signals' = Append(signals, "SIGTERM")
    /\ mpc' = "wait"
    /\ UNCHANGED <<proc, mexc>>
    /\ ManageRest

\* lines 35-37: proc.wait(timeout=timeout) returns when the process has
\* ended, or raises TimeoutExpired while it is still running
ManageWait ==
    /\ mpc = "wait"
    /\ IF proc.state = "finished"
       THEN /\ mpc' = "done"
            /\ proc' = proc
       ELSE /\ mpc' = "kill"
            /\ proc' = [proc EXCEPT !.expired = TRUE]
    /\ UNCHANGED <<signals, mexc>>
    /\ ManageRest

NextManage ==
    \/ ProcFinish
    \/ ManageBodyEnd
    \/ ManagePoll
    \/ ManageKill
    \/ ManageTerminate
    \/ ManageWait

SpecManage == InitManage /\ [][NextManage]_vars

(***************************************************************************)
(* Properties                                                              *)
(***************************************************************************)
Count(op, who) == Cardinality({i \in DOMAIN log : log[i].op = op /\ log[i].who = who})

Acquired(s) == Count("acquire", s) > 0
Released(s) == Count("release", s) > 0

Runs == {i \in DOMAIN log : log[i].op = "run"}

RunsOf(p) == {i \in Runs : log[i].phase = p}

Phases == {PhaseOrder[i] : i \in 1..Len(PhaseOrder)}

RunPosSet == {RunPositions[i] : i \in 1..Len(RunPositions)}

FatalPhases == {"target_install", "steering_install", "steering_invoke", "target_invoke"}

\* the body of the innermost scope has ended
BodyEnded == pc \in {"steering_exit", "target_exit", "repo_exit", "repo_shutdown", "done", "exited"}

ECalls(c) == {i \in DOMAIN elog : elog[i].call = c}

ECalled(c) == ECalls(c) # {}

ESucceeded(c) == \E i \in ECalls(c) : elog[i].rc = 0

\* __enter__ of the VirtEC2 backend returned: the body ran
EC2Acquired == ECalled("run")

\* nothing the VirtEC2 backend created is left at the provider
EC2NothingLeft == ~aws.keypair /\ ~aws.sg /\ aws.inst \in {"none", "terminated"}

\* C1: on every exit path of CliRun.run the releases run innermost first
\* (steering, then target, then the repository, whose server stops only after
\* the target's release), a scope is released only if it was acquired, and
\* once run() is left every acquired scope has been released exactly once.
C1_ScopedRelease ==
    /\ \A i, j \in DOMAIN log :
          (i < j /\ log[i].op = "release" /\ log[j].op = "release")
             => ScopeIndex(log[i].who) > ScopeIndex(log[j].who)
    /\ \A s \in {"repo", "target", "steering"} :
          /\ Count("acquire", s) <= 1
          /\ Count("release", s) <= Count("acquire", s)
          /\ pc = "done" => Count("release", s) = Count("acquire", s)
    /\ (shutdown_request \/ http_thread = "stopped")
          => (Released("repo") /\ (Acquired("target") => Released("target")))

\* C1 witness: run() left by an exception of a phase with all three scopes
\* acquired and released and the server stopped
C1_Witness ==
    /\ pc = "done"
    /\ exc = "RuntimeError"
    /\ Released("steering") /\ Released("target") /\ Released("repo")
    /\ http_thread = "stopped"

\* C2: when the readiness loop of the cloud-VM acquire exhausts its attempts,
\* the unwind removes the instance, the security group and the keypair
\* created up to that point.
C2_BootFailureUnwinds ==
    (epc = "done" /\ eexc = "RuntimeError" /\ attempts = MaxAttempts) => EC2NothingLeft

\* C3: a test_invocation command that exits non-zero raises nothing and its
\* exit code is the value run() returns.
C3_TestFailureIsReturned ==
    \A i \in RunsOf("test_invocation") :
        (log[i].res # 0 /\ BodyEnded)
           => /\ pc = "steering_exit" => exc = "none"
              /\ pc = "done" => ret = <<log[i].res>>

\* C4: an install or invoke command that exits non-zero is the last command
\* of the run, it leaves an exception in flight, and steering, target and
\* repository (each when configured) are all released before run() is left.
C4_FatalPhaseFailure ==
    \A i \in Runs :
        (log[i].phase \in FatalPhases /\ log[i].res # 0)
           => /\ \A j \in Runs : j <= i
              /\ exc # "none"
              /\ pc \notin Phases \cup RunPosSet \cup {"sleep"}
              /\ pc = "done" =>
                    /\ Released("target")
                    /\ HasSteering(conf) => Released("steering")
                    /\ conf.repo # "none" => Released("repo")

\* C4 witness: the steering invoke command failed after both installs, and
\* run() was left with the three scopes released
C4_Witness ==
    /\ pc = "done"
    /\ \E i \in RunsOf("steering_invoke") : log[i].res # 0
    /\ RunsOf("target_install") # {} /\ RunsOf("steering_install") # {}
    /\ Released("steering") /\ Released("target") /\ Released("repo")

\* C5: with a target, no steering machine and no test_invocation, and every
\* command exiting 0, the body ends without an exception, the configured
\* target install and target invoke commands have run, and run() returns 0.
C5_AbsentSteeringSkipped ==
    (/\ ~HasSteering(conf) /\ conf.test = "none"
     /\ Acquired("target") /\ BodyEnded
     /\ \A i \in Runs : log[i].res = 0)
       => /\ conf.trpm => RunsOf("target_install") # {}
          /\ conf.tinvoke => RunsOf("target_invoke") # {}
          /\ pc = "steering_exit" => exc = "none"
          /\ pc = "done" => ret = <<0>>

\* C6: the commands of a run follow the order target install, steering
\* install, steering invoke, target invoke, test invocation, each phase at
\* most once; a target install that exits non-zero is never followed by the
\* target invoke command.
C6_PhaseOrder ==
    /\ \A i, j \in Runs :
          i < j => PhaseIndex(log[i].phase) < PhaseIndex(log[j].phase)
    /\ \A i \in RunsOf("target_install") :
          log[i].res # 0 => RunsOf("target_invoke") = {}
    /\ \A i \in Runs :
          pc \in Phases => PhaseIndex(log[i].phase) < PhaseIndex(pc)

\* C6 witness: all five phases ran a command, the target install before the
\* target invoke
C6_Witness ==
    /\ Cardinality(Runs) = Len(PhaseOrder)
    /\ \E i \in RunsOf("target_install") : \E j \in RunsOf("target_invoke") : i < j

\* C7: once the cloud-VM release has started, every sub-step of it (terminate,
\* security-group delete, keypair delete) has been attempted by the time the
\* release is over, whether or not an earlier sub-step failed.
C7_ReleaseContinues ==
    (epc = "done" /\ ECalled("terminate"))
       => (ECalled("delete_security_group") /\ ECalled("delete_key_pair"))

\* C8: after a successful acquire and the release that follows, nothing the
\* backend created exists any more (cloud-VM: no instance, no security group,
\* no imported keypair).
C8_ReleaseLeavesNothing ==
    (epc = "done" /\ EC2Acquired) => EC2NothingLeft

\* C9: the readiness loop probes at most MaxAttempts times, the first probe
\* that exits 0 is the last one and ends the loop with success, and the boot
\* failure is raised exactly when MaxAttempts probes were made and all failed.
C9_ReadinessWait ==
    /\ attempts = Cardinality(ECalls("probe"))
    /\ attempts <= MaxAttempts
    /\ \A i \in ECalls("probe") :
          elog[i].rc = 0 => /\ \A j \in ECalls("probe") : j <= i
                            /\ epc # "probe"
                            /\ eexc # "RuntimeError"
    /\ epc = "probe" => attempts < MaxAttempts
    /\ eexc = "RuntimeError"
          <=> (attempts = MaxAttempts /\ \A i \in ECalls("probe") : elog[i].rc # 0)
    /\ (epc # "probe" /\ attempts > 0 /\ attempts < MaxAttempts) => ESucceeded("probe")

\* C9 witness: two failed probes, then a successful third one ends the wait
C9_Witness ==
    /\ attempts = 3
    /\ epc = "body"
    /\ ESucceeded("probe")

\* C10: the cloud-VM release calls terminate, then waits for the termination,
\* then deletes the security group, then the keypair: a later step is issued
\* only after the earlier one succeeded, and the security group delete only
\* with the instance confirmed terminated.
C10_ReleaseOrder ==
    /\ \A i \in ECalls("wait_until_terminated") :
          \E j \in ECalls("terminate") : j < i /\ elog[j].rc = 0
    /\ \A i \in ECalls("delete_security_group") :
          \E j \in ECalls("wait_until_terminated") : j < i /\ elog[j].rc = 0
    /\ \A i \in ECalls("delete_key_pair") :
          \E j \in ECalls("delete_security_group") : j < i /\ elog[j].rc = 0
    /\ epc = "exit_sg" => aws.inst = "terminated"
    /\ ECalled("delete_security_group") => aws.inst = "terminated"

\* C10 witness: a release that ran all four steps
C10_Witness ==
    /\ epc = "done"
    /\ ESucceeded("terminate") /\ ESucceeded("wait_until_terminated")
    /\ ESucceeded("delete_security_group") /\ ESucceeded("delete_key_pair")
    /\ EC2NothingLeft

\* C11: the cloud-VM acquire imports the keypair, then creates the security
\* group and authorizes its ingress rule, then launches one instance, then
\* probes it; each step is issued only after the one before it succeeded, and
\* the body of the scope is entered only after a probe succeeded.
C11_AcquireOrder ==
    /\ \A i \in ECalls("create_security_group") :
          \E j \in ECalls("import_key_pair") : j < i /\ elog[j].rc = 0
    /\ \A i \in ECalls("authorize_ingress") :
          \E j \in ECalls("create_security_group") : j < i /\ elog[j].rc = 0
    /\ \A i \in ECalls("create_instances") :
          \E j \in ECalls("authorize_ingress") : j < i /\ elog[j].rc = 0
    /\ \A i \in ECalls("probe") :
          \E j \in ECalls("wait_until_running") : j < i /\ elog[j].rc = 0
    /\ Cardinality(ECalls("create_instances")) <= 1
    /\ (epc = "body" \/ EC2Acquired)
          => (ESucceeded("probe") /\ Cardinality(ECalls("create_instances")) = 1)
    /\ epc = "body" => (aws.keypair /\ aws.sg /\ aws.inst = "running" /\ instance)

\* C11 witness: acquire returned after keypair, group, instance and a probe
\* that succeeded at the second attempt
C11_Witness ==
    /\ epc = "body"
    /\ attempts = 2
    /\ ESucceeded("import_key_pair") /\ ESucceeded("authorize_ingress")
    /\ ESucceeded("wait_until_running")

\* C12: an instance that exists and is not terminated has its security
\* group: the group is created before create_instances is called and it is
\* still there while the instance is pending, running or shutting down.
C12_PolicyOutlivesInstance ==
    /\ SecurityGroupInUse(aws) => aws.sg
    /\ ECalled("create_instances") => ESucceeded("create_security_group")
    /\ (ESucceeded("delete_security_group") /\ epc # "enter_sg") => ~SecurityGroupInUse(aws)

\* C12 witness: the instance is shutting down, its termination not yet
\* confirmed, and the security group still exists
C12_Witness ==
    /\ aws.inst = "shutting-down"
    /\ aws.sg
    /\ epc = "exit_wait"

\* C13: acquiring a local-hypervisor machine completes only once the guest
\* was found ready: a qemu machine that was acquired and is still up has a
\* booted guest, and a command is in flight only on a ready qemu machine.
C13_HypervisorReadyBeforeUse ==
    \A m \in Machines :
       (MachType(conf, m) = "qemu" /\ Acquired(m) /\ mach[m].live)
          => /\ mach[m].ready
             /\ \A p \in inflight : PhaseMachine(conf, p) = m => mach[m].ready

\* C14: run(command) of a backend returns the remote command's exit status
\* and does not raise because the status is non-zero: every run record holds
\* the status as the returned value and no exception of run() itself.
C14_RunReturnsStatus ==
    \A i \in Runs : log[i].raised = "none" /\ log[i].res = log[i].status

C14_Witness ==
    \E i \in Runs :
       /\ log[i].status = MaxExit
       /\ log[i].res = MaxExit
       /\ MachType(conf, log[i].who) = "qemu"

\* the steering acquire raised after the target (and the repository) had been
\* acquired
LaterAcquireFailed ==
    /\ HasSteering(conf)
    /\ Acquired("target")
    /\ ~Acquired("steering")
    /\ pc # "steering_enter"

ReleaseIndex(s) == {i \in DOMAIN log : log[i].op = "release" /\ log[i].who = s}

\* C15: when the acquire of a later scope fails, the error propagates at
\* once, no phase command is run, and the scopes already acquired are
\* released exactly once each, the target before the repository; the scope
\* whose acquire failed is not released.
C15_LaterAcquireFailure ==
    LaterAcquireFailed =>
       /\ pc \in {"target_exit", "repo_exit", "repo_shutdown", "done", "exited"}
       /\ exc # "none"
       /\ Runs = {} /\ inflight = {}
       /\ ~Released("steering")
       /\ Count("release", "target") = (IF pc = "target_exit" THEN 0 ELSE 1)
       /\ Count("release", "repo") =
             (IF Acquired("repo") /\ pc \in {"repo_shutdown", "done", "exited"} THEN 1 ELSE 0)
       /\ \A i \in ReleaseIndex("target"), j \in ReleaseIndex("repo") : i < j
       /\ pc \in {"done", "exited"} => ret = <<>>

C15_Witness ==
    /\ LaterAcquireFailed
    /\ pc = "done"
    /\ Acquired("repo")
    /\ Count("release", "target") = 1
    /\ Count("release", "repo") = 1

\* every phase block was passed without an exception: the body reached its
\* last statement
BodySucceeded == \E i \in DOMAIN log : log[i].op = "sleep"

\* C16: a failure during teardown does not change the exit code: once all
\* phases succeeded, the run returns 0 and the process exits with 0 whatever
\* the releases did.
C16_TeardownKeepsExitCode ==
    /\ (BodySucceeded /\ pc \in {"done", "exited"}) => (exc = "none" /\ ret = <<0>>)
    /\ (BodySucceeded /\ pc = "exited") => exitcode = <<0>>

\* both machines were acquired: the phase blocks were reached
BodyEntered == Acquired("target") /\ (HasSteering(conf) => Acquired("steering"))

\* the command of an install, invoke or test phase exited non-zero
PhaseFailed == \E i \in Runs : log[i].status # 0

\* C17: the process exit code is the value run() returned, and that value is
\* non-zero exactly when a phase failed (a command of an install, invoke or
\* test phase exited non-zero).
C17_ExitCodeIsRunResult ==
    (pc = "exited" /\ BodyEntered) =>
       /\ exitcode = ret
       /\ ret # <<0>> <=> PhaseFailed

\* the configuration of the cloud-VM scenario: target and steering of type
\* ec2 with an existing_url repository
CloudScenario == conf.ttype = "ec2" /\ conf.stype = "ec2" /\ conf.repo = "existing_url"

\* C18: a run of the cloud-VM scenario creates the target and the steering
\* instance and tears them down, the steering instance before the target
\* instance.
C18_CloudScenarioRuns ==
    (CloudScenario /\ pc \in {"done", "exited"}) =>
       /\ Count("acquire", "target") = 1 /\ Count("acquire", "steering") = 1
       /\ Count("release", "target") = 1 /\ Count("release", "steering") = 1
       /\ \A i \in ReleaseIndex("steering"), j \in ReleaseIndex("target") : i < j

\* the configuration of the single local-hypervisor scenario: a qemu target
\* with rpm and invoke, no rpm_repo, no steering, no test_invocation
SingleQemuScenario ==
    /\ conf.ttype = "qemu" /\ conf.stype = "none" /\ conf.repo = "none"
    /\ conf.trpm /\ conf.tinvoke /\ conf.test = "none"

\* nothing outside the program failed: the key pair was generated, the
\* hypervisor process was started and every command exited 0
EnvironmentOk ==
    /\ ssh_keys
    /\ exc \notin {"OSError", "CalledProcessError"}
    /\ ~PhaseFailed

\* C19: the single local-hypervisor scenario launches the machine, installs
\* the package, runs the invoke command, terminates the hypervisor process,
\* in this order, and the run's exit code is 0.
C19_SingleQemuScenario ==
    (SingleQemuScenario /\ EnvironmentOk /\ pc \in {"done", "exited"}) =>
       /\ ret = <<0>>
       /\ Count("acquire", "target") = 1 /\ Count("release", "target") = 1
       /\ Cardinality(RunsOf("target_install")) = 1
       /\ Cardinality(RunsOf("target_invoke")) = 1
       /\ \A i \in RunsOf("target_install"), j \in RunsOf("target_invoke") : i < j
       /\ pc = "exited" => exitcode = <<0>>

\* C20: the orchestrator drives one machine at a time: at most one remote
\* command is in flight, it is the command of the phase the main thread is
\* waiting in, and a command is issued only after the previous one returned.
C20_OneCommandAtATime ==
    /\ Cardinality(inflight) <= 1
    /\ \A p \in inflight : pc = RunPos(p)
    /\ pc \in RunPosSet => Cardinality(inflight) = 1
    /\ Cardinality({PhaseMachine(conf, p) : p \in inflight}) <= 1

C20_Witness ==
    /\ inflight = {"steering_invoke"}
    /\ \E i \in RunsOf("target_install") : log[i].who = "target"

\* the server thread exists: it was started and may read the directory
ServerThreadStarted == http_thread # "none"

\* C21: every write to the repository's directory (copying the packages,
\* generating the metadata) has completed before the server thread is
\* started: while the thread exists the main thread is not writing.
C21_WritesBeforeServerThread ==
    ServerThreadStarted => repodir = "written"

C21_Witness ==
    /\ http_thread = "serving"
    /\ repodir = "written"
    /\ pc = "target_enter"

\* C22: the key pair is destroyed at run end: once the process has exited,
\* on success or failure, the private and public key files no longer exist.
C22_KeypairDestroyed ==
    pc = "exited" => ~ssh_keys

\* the docker commands of kind cmd issued for machine m
DockerCmds(m, cmd) ==
    {i \in DOMAIN log : log[i].op = "docker" /\ log[i].who = m /\ log[i].phase = cmd}

PullFailed(m) == \E i \in DockerCmds(m, "pull") : log[i].status # 0

\* C24: a failed image pull aborts the container backend's acquire before
\* any container is started: when the pull exited non-zero, no `docker
\* container run` was issued for the machine, the acquire raised and the
\* machine holds no container.
C24_PullFailureAborts ==
    \A m \in Machines :
       PullFailed(m) =>
          /\ DockerCmds(m, "container_run") = {}
          /\ ~Acquired(m)
          /\ exc # "none"
          /\ ~mach[m].ref /\ ~mach[m].live
          /\ Runs = {}

C24_Witness ==
    /\ PullFailed("steering")
    /\ DockerCmds("target", "container_run") # {}
    /\ Released("target")
    /\ pc = "done"

\* Conf.load raised: run() ended with the loader's RuntimeError before the
\* key pair was generated
LoadRejected == pc \in {"done", "exited"} /\ exc = "RuntimeError" /\ ~ssh_keys

\* the exception of CliRun._virtualize left run()
DispatchFailed ==
    /\ pc \in {"done", "exited"} /\ ssh_keys /\ log = <<>>
    /\ exc \in {"ValueError", "AttributeError"}

\* C25: a configuration whose target type is docker, qemu or ec2 is accepted
\* by the loader and dispatched to the matching backend; a type outside
\* these three is rejected.  (Configurations with a target, without
\* credentials, steering and rpm_repo.)
C25_TypesAcceptedAndDispatched ==
    (pc # "load" /\ conf.target /\ ~conf.cred /\ conf.stype = "none" /\ conf.repo = "none") =>
       /\ LoadRejected <=> conf.ttype \notin VirtTypes
       /\ ~DispatchFailed

\* the configuration has the required target with a type the loader knows;
\* the optional keys are present in any combination
WellFormed(c) == c.target /\ c.ttype \in VirtTypes

\* C26: the loader accepts every configuration with the required target and
\* any subset of the optional keys (steering, rpm_repo, credentials.aws,
\* rpm, invoke, test_invocation) and rejects a configuration without
\* target; this holds of the loader the run uses and of the schema-based
\* loader.
C26_LoaderAcceptsOptionalKeys ==
    pc # "load" =>
       /\ WellFormed(conf) => ~LoadRejected
       /\ ~conf.target => LoadRejected
       /\ WellFormed(conf) => ValidateOk(conf)

(***************************************************************************)
(* SpecCloudInit: one CloudInit object that is built up by its add_*       *)
(* methods in any order and then rendered by get_userdata_str.             *)
(***************************************************************************)
\* users added at most
MaxUsers == 2

RepoNames == {"rpmci", "osbuild"}
HostAliases == {"targetvm", "testvm"}
HostNames == {"10.0.2.2", "127.0.0.1"}

InitCloudInit ==
    /\ conf = [repo |-> "none", target |-> TRUE, cred |-> FALSE, ttype |-> "qemu", stype |-> "none",
               trpm |-> FALSE, tinvoke |-> FALSE, srpm |-> FALSE, sinvoke |-> FALSE,
               test |-> "none"]
    /\ pc = "idle"
    /\ exc = "none"
    /\ ret = <<>>
    /\ log = <<>>
    /\ ssh_keys = TRUE
    /\ httpd = FALSE
    /\ http_thread = "none"
    /\ shutdown_request = FALSE
    /\ mach = [m \in Machines |-> NoMachine]
    /\ epc = "idle"
    /\ eexc = "none"
    /\ aws = [keypair |-> FALSE, sg |-> FALSE, inst |-> "none"]
    /\ instance = FALSE
    /\ attempts = 0
    /\ elog = <<>>
    /\ inflight = {}
    /\ exitcode = <<>>
    /\ qpc = "idle"
    /\ repodir = "absent"
    /\ ci = NewCloudInit
    /\ userdata = <<>>
    /\ UnitsIdle

CloudInitBuilds(c) ==
    /\ pc = "idle" /\ epc = "idle" /\ qpc = "idle"
    /\ userdata = <<>>
    /\ ci' = c
    /\ UNCHANGED <<cliVars, ec2Vars, inflight, exitcode, qpc, repodir, userdata, unitVars>>

AddRepo == \E n \in RepoNames : CloudInitBuilds([ci EXCEPT !.repos = @ \cup {n}])

AddUser == ci.users < MaxUsers /\ CloudInitBuilds([ci EXCEPT !.users = @ + 1])

AddSshKeyPair == CloudInitBuilds([ci EXCEPT !.keypair = TRUE])

AddSshConfig ==
    \E a \in HostAliases, h \in HostNames :
       CloudInitBuilds([ci EXCEPT !.configs = SetSshConfig(@, [alias |-> a, host |-> h])])

GetUserdata ==
    /\ pc = "idle" /\ epc = "idle" /\ qpc = "idle"
    /\ userdata = <<>>
    /\ userdata' = <<GetUserdataStr(ci)>>
    /\ UNCHANGED <<cliVars, ec2Vars, inflight, exitcode, qpc, repodir, ci, unitVars>>

NextCloudInit ==
    \/ AddRepo
    \/ AddUser
    \/ AddSshKeyPair
    \/ AddSshConfig
    \/ GetUserdata

SpecCloudInit == InitCloudInit /\ [][NextCloudInit]_vars

\* the paths of a write_files list
Paths(files) == [i \in DOMAIN files |-> files[i].path]

\* the lines the k-th host alias must have in the ssh_config content
ExpectedEntry(lines, k, e) ==
    LET base == (k - 1) * 6 IN
    /\ lines[base + 1] = <<"Host", e.alias>>
    /\ lines[base + 2][1] = "HostName" /\ lines[base + 2][2] = e.host
    /\ lines[base + 3][1] = "Port"
    /\ lines[base + 4][1] = "User"
    /\ lines[base + 5][1] = "IdentityFile"
    /\ lines[base + 6][1] = "StrictHostKeyChecking"

\* C27: get_userdata_str includes a section only when it is non-empty
\* (yum_repos iff a repo was added, users iff a user was added, write_files
\* iff a key pair or an ssh config was added); with both a key pair and an
\* ssh config, write_files holds the public key, the private key and the
\* ssh_config entry in this order; the ssh_config content lists for each
\* host alias a Host line followed by HostName, Port, User, IdentityFile,
\* StrictHostKeyChecking.
C27_UserdataSections ==
    userdata # <<>> =>
       LET u == userdata[1] IN
       /\ "yum_repos" \in u.keys <=> ci.repos # {}
       /\ "users" \in u.keys <=> ci.users > 0
       /\ "write_files" \in u.keys <=> (ci.keypair \/ ci.configs # <<>>)
       /\ (ci.keypair /\ ci.configs # <<>>) =>
             Paths(u.write_files) = <<"/etc/ssh/id_rsa.pub", "/etc/ssh/id_rsa", "/etc/ssh/ssh_config">>
       /\ ci.configs # <<>> =>
             LET lines == B64Decode(u.write_files[Len(u.write_files)].content) IN
             /\ Len(lines) = 6 * Len(ci.configs)
             /\ \A k \in DOMAIN ci.configs : ExpectedEntry(lines, k, ci.configs[k])

C27_Witness ==
    /\ userdata # <<>>
    /\ ci.keypair /\ Len(ci.configs) = 2 /\ ci.users = 1 /\ ci.repos = {}
    /\ Len(userdata[1].write_files) = 3
    /\ userdata[1].keys = {"users", "write_files"}

\* C28: every run terminates, and when it has, every resource acquired
\* during the run has been released: the scope of the cloud-VM backend is
\* eventually left with nothing of what it created still at the provider.
C28_TerminatesAndReleases ==
    <>(epc = "done" /\ EC2NothingLeft)

\* C29: when test_invocation is configured, its command is executed exactly
\* once, after the target invoke stage, on the machine test_invocation.machine
\* names, target or steering: after the test block was passed there is one
\* test run, on the named machine, later than any target invoke run.
C29_TestOnNamedMachine ==
    (conf.test \in Machines /\ pc = "sleep") =>
       /\ Cardinality(RunsOf("test_invocation")) = 1
       /\ \A i \in RunsOf("test_invocation") :
             /\ log[i].who = conf.test
             /\ \A j \in RunsOf("target_invoke") : j < i

AcquireIndex(s) == {i \in DOMAIN log : log[i].op = "acquire" /\ log[i].who = s}

\* C30: no install, invoke or test command is issued to either machine until
\* the target and, when configured, the steering machine have both been
\* acquired, and the target is acquired before the steering machine.
C30_AcquireBeforeCommands ==
    /\ (Runs # {} \/ inflight # {}) =>
          (Acquired("target") /\ (HasSteering(conf) => Acquired("steering")))
    /\ \A i \in Runs : \A m \in Machines : \A j \in AcquireIndex(m) : j < i
    /\ \A i \in AcquireIndex("steering") : \E j \in AcquireIndex("target") : j < i
    /\ pc \in {"steering_enter"} => Acquired("target")

C30_Witness ==
    /\ inflight = {"target_invoke"}
    /\ RunsOf("steering_invoke") # {}
    /\ \E i \in AcquireIndex("target") : \E j \in AcquireIndex("steering") : i < j

(***************************************************************************)
(* SpecAws: the entry points of aws.py.  run_test and run_test_2 are the   *)
(* two-machine cloud flows; AWSSession.s3_repository (and the module-level *)
(* s3_repository, the same code) is the repository scope both flows open.  *)
(***************************************************************************)
MaxFiles == 3

Files == 1..MaxFiles

\* the orders in which os.walk may hand out the files of a directory
Walks == {w \in UNION {[1..n -> Files] : n \in 0..MaxFiles} :
             \A i, j \in DOMAIN w : i # j => w[i] # w[j]}

SeqRange(q) == {q[i] : i \in DOMAIN q}

AwsEntries == {"run_test", "run_test_2", "s3_repository"}

InitAws ==
    /\ RestIdle
    /\ aentry \in AwsEntries
    /\ apc = aentry
    /\ aexc = "none"
    /\ bucket = {}
    /\ objects = <<>>
    /\ walk \in (IF aentry = "s3_repository" THEN Walks ELSE {<<>>})
    /\ acmds = <<>>
    /\ mpc = "idle"
    /\ proc = NoProc
    /\ signals = <<>>
    /\ mexc = "none"

AwsRest == UNCHANGED <<cliVars, ec2Vars, inflight, exitcode, auxVars, mpVars, aentry>>

\* run_test_2: AWSSession("access key" "secret key", "bucket", "eu-central-1",
\* cache_dir, test_id) passes five arguments for six parameters (the first two
\* literals are one string), so the constructor call raises TypeError
RunTest2 ==
    /\ apc = "run_test_2"
    /\ apc' = "done"
    /\ aexc' = "TypeError"
    /\ UNCHANGED <<bucket, objects, walk, acmds>>
    /\ AwsRest

\* run_test: create_session is wrapped by contextlib.contextmanager, so the
\* call runs its body (which opens the credentials file) and hands back a
\* context-manager object, not a session: aws_session.resource("ec2") raises
\* AttributeError
RunTest ==
    /\ apc = "run_test"
    /\ \E cfg_ok \in BOOLEAN :
          aexc' = IF cfg_ok THEN "AttributeError" ELSE "OSError"
    /\ apc' = "done"
    /\ UNCHANGED <<bucket, objects, walk, acmds>>
    /\ AwsRest

\* s3_repository, the walk: one bucket.upload_file call and, when it returns,
\* the key appended to `objects`; an upload that raises leaves the generator
\* before its try block
S3Upload ==
    /\ apc = "s3_repository"
    /\ walk # <<>>
    /\ \E ok \in BOOLEAN :
          IF ok
          THEN /\ bucket' = bucket \cup {Head(walk)}
               /\ objects' = Append(objects, Head(walk))
               /\ walk' = Tail(walk)
               /\ UNCHANGED <<apc, aexc>>
          ELSE /\ apc' = "done"
               /\ aexc' = "S3UploadFailedError"
               /\ UNCHANGED <<bucket, objects, walk>>
    /\ UNCHANGED acmds
    /\ AwsRest

\* s3_repository: the walk is over, `yield url` inside try
S3Yield ==
    /\ apc = "s3_repository"
    /\ walk = <<>>
    /\ apc' = "s3_body"
    /\ UNCHANGED <<aexc, bucket, objects, walk, acmds>>
    /\ AwsRest

\* the body of the `with ... s3_repository(...)` statement returns or raises
S3Body ==
    /\ apc = "s3_body"
    /\ \E raised \in BOOLEAN :
          aexc' = IF raised THEN "RuntimeError" ELSE "none"
    /\ apc' = "s3_exit"
    /\ UNCHANGED <<bucket, objects, walk, acmds>>
    /\ AwsRest

\* s3_repository, finally: one bucket.delete_objects call with the keys of
\* `objects`; the call raises, or returns having deleted the keys the
\* provider could delete (those it could not are in the ignored response)
S3Exit ==
    /\ apc = "s3_exit"
    /\ \E call_ok \in BOOLEAN : \E deleted \in SUBSET SeqRange(objects) :
          /\ ~call_ok => deleted = {}
          /\ bucket' = bucket \ deleted
          /\ aexc' = IF call_ok THEN aexc ELSE "ClientError"
    /\ apc' = "done"
    /\ UNCHANGED <<objects, walk, acmds>>
    /\ AwsRest

NextAws ==
    \/ RunTest2
    \/ RunTest
    \/ S3Upload
    \/ S3Yield
    \/ S3Body
    \/ S3Exit

SpecAws == InitAws /\ [][NextAws]_vars

\* the install, setup and test commands of the cloud flow, and the four
\* host-alias substitutions that go before them
FlowCommands == {"install_test", "install_target", "rpmci_setup", "tests"}
FlowSubstitutions == {[host |-> h, cmd |-> a] : h \in {"testvm", "targetvm"},
                                               a \in {"sed_TESTVM", "sed_TARGETVM"}}
Issued(c) == {i \in DOMAIN acmds : acmds[i].cmd = c}

\* C31: in the two-machine cloud flow the TESTVM and TARGETVM substitutions
\* have been applied on both instances before any install, setup or test
\* command is issued, and each of those commands is issued exactly once per
\* run.
C31_SubstitutedThenOnce ==
    (aentry \in {"run_test", "run_test_2"} /\ apc = "done") =>
       /\ \A c \in FlowCommands : Cardinality(Issued(c)) = 1
       /\ \A c \in FlowCommands : \A i \in Issued(c) :
             \A sub \in FlowSubstitutions : \E j \in 1..(i - 1) : acmds[j] = sub

AcquireFailed(m) ==
    \E cmd \in {"pull", "container_run"} : \E i \in DockerCmds(m, cmd) : log[i].status # 0

\* C32: when VirtDocker acquire raises (the pull failed or the container
\* start failed) nothing is left dangling: no container of the machine is
\* running, the backend holds no container reference, and the release that
\* follows was a no-op (no `docker container stop` was issued).
C32_FailedAcquireLeavesNothing ==
    \A m \in Machines :
       (MachType(conf, m) = "docker" /\ AcquireFailed(m)) =>
          /\ ~mach[m].ref
          /\ ~mach[m].live
          /\ DockerCmds(m, "container_stop") = {}

C32_Witness ==
    /\ pc = "done"
    /\ Acquired("target")
    /\ \E i \in DockerCmds("steering", "container_run") : log[i].status # 0

ReleaseRecs(m) == {i \in DOMAIN log : log[i].op = "release" /\ log[i].who = m}

\* C33: container release is best-effort: a release of a container backend
\* issues `docker container stop` once, does not raise whatever the command's
\* exit status, and leaves the backend without a container reference.
C33_ReleaseBestEffort ==
    \A m \in Machines :
       (MachType(conf, m) = "docker" /\ Released(m)) =>
          /\ \A i \in ReleaseRecs(m) : log[i].raised = "none"
          /\ Cardinality(DockerCmds(m, "container_stop")) = 1
          /\ ~mach[m].ref

\* a release whose stop command exited non-zero, and the run went on to end
C33_Witness ==
    /\ pc = "done"
    /\ Released("target")
    /\ \E i \in DockerCmds("target", "container_stop") : log[i].status # 0
    /\ ~mach["target"].ref

\* the provider still holds the artifact
ArtifactExists(a) ==
    CASE a = "keypair" -> aws.keypair
      [] a = "sg" -> aws.sg
      [] OTHER -> aws.inst \notin {"none", "terminated"}

CreateCall(a) ==
    CASE a = "keypair" -> "import_key_pair"
      [] a = "sg" -> "create_security_group"
      [] OTHER -> "create_instances"

LogIndex(kind, a) ==
    {i \in DOMAIN elog : elog[i].call = kind /\ elog[i].artifact = a}

\* C34: the deletion log entry of a cloud artifact (keypair, security group,
\* instance) is emitted only when the artifact has been deleted, and its
\* creation entry no later than the create call: once the scope has been
\* left, an artifact with a deletion entry does not exist, and every create
\* call has the artifact's creation entry before it.
C34_DeletionLoggedWhenDeleted ==
    \A a \in Artifacts :
       /\ (epc = "done" /\ LogIndex("log_delete", a) # {}) => ~ArtifactExists(a)
       /\ \A i \in DOMAIN elog :
             elog[i].call = CreateCall(a) => \E j \in LogIndex("log_create", a) : j < i

\* the repository scope has been acquired and not yet released
RepoScopeBody == conf.repo = "local_http" /\ Acquired("repo") /\ ~Released("repo")

\* C35: the local-HTTP repository's server thread is alive for exactly the
\* repository scope: it is serving from the end of acquire until release, and
\* after release the server thread eventually terminates.
C35_ServerThreadBoundToScope ==
    /\ [](RepoScopeBody => http_thread = "serving")
    /\ [](Released("repo") => <>(http_thread \in {"stopped", "failed"}))

\* C36: whenever RepoLocalHttp release runs, the server thread has already
\* set the server handle (self.httpd is not None), whatever the interleaving
\* of the two threads and also when the server failed to bind: at the call
\* of __exit__ the handle is set.
C36_HandleSetAtRelease ==
    (pc = "repo_exit" /\ conf.repo = "local_http") => httpd

\* C37: every run() call on a backend happens while the backend is live,
\* after its acquire completed and before its release started, and never on a
\* backend whose container reference, hypervisor process or instance handle
\* is unset: while a command runs its machine is acquired, not released and
\* holds its handle; every run on record lies between the machine's acquire
\* and its release; the VirtEC2 body runs with the instance handle set, after
\* a successful probe and before the termination.
C37_RunWhileLive ==
    /\ \A p \in inflight :
          /\ PhaseMachine(conf, p) \in Machines
          /\ mach[PhaseMachine(conf, p)].ref
          /\ Acquired(PhaseMachine(conf, p))
          /\ ~Released(PhaseMachine(conf, p))
    /\ \A i \in Runs :
          /\ \E j \in AcquireIndex(log[i].who) : j < i
          /\ \A j \in ReleaseRecs(log[i].who) : i < j
    /\ epc = "body" => instance
    /\ \A i \in ECalls("run") :
          /\ \E j \in ECalls("wait_until_running") : j < i /\ elog[j].rc = 0
          /\ \E j \in ECalls("probe") : j < i /\ elog[j].rc = 0
          /\ \A j \in ECalls("terminate") : i < j

\* a command is running on the steering container after one ran on the target
C37_Witness ==
    /\ inflight = {"steering_invoke"}
    /\ mach["steering"].ref /\ mach["steering"].live
    /\ RunsOf("target_install") # {}
    /\ ~Released("steering")

\* C38: every object s3_repository uploaded to the bucket is deleted when the
\* repository scope ends, also when an upload fails partway through the
\* directory walk: once s3_repository is done, no uploaded object is left in
\* the bucket.
C38_UploadsDeleted ==
    (aentry = "s3_repository" /\ apc = "done") => bucket = {}

\* C39: when a manage_process context has been exited, normally or by an
\* exception, the process has ended; a process found finished was sent no
\* signal; one found running was sent SIGKILL alone with timeout 0, and with
\* a non-zero timeout SIGTERM first and SIGKILL after it only if it had not
\* exited within the timeout.
C39_ManagedProcessEnded ==
    mpc = "done" =>
       /\ proc.state = "finished"
       /\ proc.polled = "finished" => signals = <<>>
       /\ (proc.polled = "running" /\ proc.timeout = 0) => signals = <<"SIGKILL">>
       /\ (proc.polled = "running" /\ proc.timeout # 0) =>
             signals = IF proc.expired THEN <<"SIGTERM", "SIGKILL">> ELSE <<"SIGTERM">>

\* the body raised, the process ignored SIGTERM for the whole timeout and was
\* killed
C39_Witness ==
    /\ mpc = "done"
    /\ mexc = "RuntimeError"
    /\ proc.timeout = 1
    /\ proc.expired
    /\ signals = <<"SIGTERM", "SIGKILL">>

====
